---- MODULE Spec2Model ----
(***************************************************************************)
(* The place grid of worldplace: the coordinate codec, block identifiers,  *)
(* the block repository (a document collection with a unique index on      *)
(* (ix, iy)) and the three request handlers get / range / place.           *)
(*                                                                         *)
(* A float coordinate is represented exactly by an integer number h of     *)
(* half steps: the coordinate is h / Den degrees, Den == 2 * SCALE.        *)
(* A string is a sequence of one-character strings.                        *)
(***************************************************************************)
EXTENDS Integers, Sequences, FiniteSets, TLC

VARIABLES
    codec,        \* the codec call in progress: its input and what it returned so far
    maximum,      \* __BLOCKS_IN_RANGE_MAXIMUM__, read from the environment at start
    now,          \* datetime.now
    db,           \* the blocks collection
    unique_index, \* whether the unique index on (ix, iy) exists
    pc,           \* where each place request stands
    req,          \* its arguments block_id and metadata
    block_indb,   \* its local block_indb: the block found, or the one to create
    path,         \* the branch it took: "create" or "update"
    interfered,   \* whether another request wrote its cell since it was called
    result,       \* what it returns or raises
    response      \* what the get or range request of the last step returned

vars == <<codec, maximum, now, db, unique_index, pc, req, block_indb, path,
          interfered, result, response>>

(***************************************************************************)
(* Bounds of the model.                                                    *)
(***************************************************************************)
\* the clock runs from 0 to MaxTime
MaxTime == 1
\* the corners of a range request lie in the index range 0 .. MaxIndex
MaxIndex == 1
\* index_to_coord is given every index of -MaxCoordIndex .. MaxCoordIndex
MaxCoordIndex == 500

Procs == {"p1", "p2"}

\* the coordinates of a range request, in half steps (1 is inside cell 0)
XCoords == {0, 1, 2 * MaxIndex}
YCoords == {0, 2}

\* values of API_BLOCKS_IN_RANGE_MAXIMUM the service is started with
Maximums == {1, 4}

(***************************************************************************)
(* src/place/__init__.py                                                   *)
(***************************************************************************)
SCALE == 10000

\* half steps per degree
Den == 2 * SCALE

\* int(): truncation toward zero of the quotient n / d, d > 0
TruncDiv(n, d) == IF n >= 0 THEN n \div d ELSE -((-n) \div d)

\* int(value * __SCALE__), value == h / Den, computed on the reals.  On the
\* coordinates drawn here (0, 0.00005, 0.0001, 0.0002) the float product is
\* the real one; on others it is not (0.0003 * 10000 is 2.9999999999999996)
coord_to_index(h) == TruncDiv(h * SCALE, Den)

\* float(index) * __STEP__, as a number of half steps
index_to_coord(index) == (index * Den) \div SCALE

(***************************************************************************)
(* src/place/__init__.py on Python's numbers.  An int is unbounded: a sign *)
(* and a magnitude, the magnitude being the sequence of its binary digits, *)
(* lowest first, the highest a 1 (zero is the empty sequence).  A float is *)
(* an IEEE-754 binary64 number (-1)^neg * m * 2^e with m below 2^53 or     *)
(* equal to it; the indexes here stay far from its overflow and underflow. *)
(***************************************************************************)
RECURSIVE NatBits(_)
\* the magnitude n >= 0
NatBits(n) == IF n = 0 THEN <<>> ELSE <<n % 2>> \o NatBits(n \div 2)

\* the int n
PyInt(n) == [neg |-> n < 0, mag |-> NatBits(IF n < 0 THEN -n ELSE n)]

\* the magnitude 2^k
Pow2(k) == [j \in 1 .. k + 1 |-> IF j = k + 1 THEN 1 ELSE 0]

\* binary digit k of a magnitude
Bit(a, k) == IF k \in 1 .. Len(a) THEN a[k] ELSE 0

\* 2^0 .. 2^7
ByteWeights == <<1, 2, 4, 8, 16, 32, 64, 128>>

RECURSIVE BlockSum(_, _, _)
\* the sum of c[8q + 1] * 2^0 .. c[8q + j] * 2^(j-1)
BlockSum(c, q, j) ==
    IF j = 0 THEN 0
    ELSE Bit(c, 8 * q + j) * ByteWeights[j] + BlockSum(c, q, j - 1)

RECURSIVE Carry(_, _, _)
\* the bytes, lowest first, of carry + the sum of c[k] * 2^(k-1) over the
\* columns k > 8q, carried from one block of eight columns to the next
Carry(c, q, carry) ==
    IF 8 * q >= Len(c) /\ carry = 0 THEN <<>>
    ELSE <<(BlockSum(c, q, 8) + carry) % 256>>
             \o Carry(c, q + 1, (BlockSum(c, q, 8) + carry) \div 256)

\* the magnitude that is the sum of c[k] * 2^(k-1)
FromColumns(c) ==
    LET bytes  == Carry(c, 0, 0)
        digits == [k \in 1 .. 8 * Len(bytes) |->
                     (bytes[((k - 1) \div 8) + 1] \div ByteWeights[((k - 1) % 8) + 1]) % 2]
        ones   == { k \in 1 .. 8 * Len(bytes) : digits[k] = 1 }
    IN  IF ones = {} THEN <<>>
        ELSE SubSeq(digits, 1, CHOOSE k \in ones : \A l \in ones : l <= k)

\* a + b
AddBits(a, b) ==
    FromColumns([k \in 1 .. (IF Len(a) >= Len(b) THEN Len(a) ELSE Len(b)) |->
                    Bit(a, k) + Bit(b, k)])

\* a * b: column k counts the pairs of digits a[i], b[j] with i + j = k + 1
MulBits(a, b) ==
    FromColumns([k \in 1 .. Len(a) + Len(b) |->
                    Cardinality({ i \in 1 .. Len(a) : a[i] = 1 /\ Bit(b, k - i + 1) = 1 })])

\* the binary digits of a float's significand
MantissaBits == 53

\* the float nearest to (-1)^neg * p * 2^e, ties to the even significand
RoundToFloat(neg, p, e) ==
    IF Len(p) <= MantissaBits THEN [neg |-> neg, m |-> p, e |-> e]
    ELSE LET drop == Len(p) - MantissaBits
             kept == SubSeq(p, drop + 1, Len(p))
             up   == /\ p[drop] = 1
                     /\ kept[1] = 1 \/ \E k \in 1 .. drop - 1 : p[k] = 1
         IN  [neg |-> neg,
              m   |-> IF up THEN AddBits(kept, <<1>>) ELSE kept,
              e   |-> e + drop]

\* float(i) of an int i
float(i) == RoundToFloat(i.neg, i.mag, 0)

\* a * b of two floats: the exact product, rounded once
FloatMul(a, b) == RoundToFloat(a.neg # b.neg, MulBits(a.m, b.m), a.e + b.e)

\* int(x) of a float x: the digits below the binary point are dropped
int(x) ==
    LET mag == IF x.m = <<>> THEN <<>>
               ELSE IF x.e >= 0 THEN [j \in 1 .. x.e |-> 0] \o x.m
               ELSE IF -x.e >= Len(x.m) THEN <<>>
               ELSE SubSeq(x.m, 1 - x.e, Len(x.m))
    IN  [neg |-> x.neg /\ mag # <<>>, mag |-> mag]

RECURSIVE HexBits(_)
\* the magnitude written in hexadecimal, highest digit first, the first
\* digit being 1
HexBits(h) ==
    IF Len(h) = 1 THEN <<1>>
    ELSE LET d == h[Len(h)]
         IN  <<d % 2, (d \div 2) % 2, (d \div 4) % 2, d \div 8>>
                 \o HexBits(SubSeq(h, 1, Len(h) - 1))

\* __STEP__ = 0.0001: the literal is the float 0x1.a36e2eb1c432dp-14, that
\* is 0x1a36e2eb1c432d * 2^-66, the float nearest to 1/10000 (just above it)
STEP ==
    [neg |-> FALSE,
     m   |-> HexBits(<<1, 10, 3, 6, 14, 2, 14, 11, 1, 12, 4, 3, 2, 13>>),
     e   |-> -66]

\* the float just below 0.0001
StepBelow ==
    [neg |-> FALSE,
     m   |-> HexBits(<<1, 10, 3, 6, 14, 2, 14, 11, 1, 12, 4, 3, 2, 12>>),
     e   |-> -66]

\* mutant of index_to_coord: the step is the float on the other side of 1/10000
index_to_coord_float_step_below(index) == FloatMul(float(index), StepBelow)

\* float(index) * __STEP__ on an int
index_to_coord_float(index) == FloatMul(float(index), STEP)

\* int(value * __SCALE__) on a float: the int __SCALE__ is converted to a
\* float for the product
coord_to_index_float(value) == int(FloatMul(value, float(PyInt(SCALE))))

(***************************************************************************)
(* src/model/block.py                                                      *)
(***************************************************************************)
\* Python's None where a model or a document is expected
None == [none |-> TRUE]

BlockMetadata(author, author_ip, color) ==
    [author |-> author, author_ip |-> author_ip, color |-> color]

\* BlockInDB(ix=, iy=, metadata=): create_time is filled by its default
\* factory, datetime.now, at construction time t
BlockInDB(ix, iy, metadata, t) ==
    [ix |-> ix, iy |-> iy, create_time |-> t, metadata |-> metadata]

\* the metadata payloads a client sends; "None" is an unset field
Metas == { BlockMetadata("a", "ip", "None"), BlockMetadata("None", "None", "c") }

(***************************************************************************)
(* src/place/block.py: identifiers                                         *)
(***************************************************************************)
DigitChars == <<"0", "1", "2", "3", "4", "5", "6", "7", "8", "9">>

RECURSIVE str(_)
\* str(n) for n >= 0
str(n) == IF n < 10 THEN <<DigitChars[n + 1]>>
          ELSE str(n \div 10) \o <<DigitChars[(n % 10) + 1]>>

RECURSIVE ZeroPad(_, _)
ZeroPad(s, w) == IF Len(s) >= w THEN s ELSE ZeroPad(<<"0">> \o s, w)

\* f"{n:0{w}d}": sign first, zeros up to width w, never cut
FormatD(n, w) == IF n < 0 THEN <<"-">> \o ZeroPad(str(-n), w - 1)
                 ELSE ZeroPad(str(n), w)

to_block_id(ix, iy) ==
    LET digits == Len(str(SCALE))
    IN  FormatD(ix, digits) \o <<"#">> \o FormatD(iy, digits)

DigitValue(c) == CHOOSE k \in 0 .. 9 : DigitChars[k + 1] = c

IsDigits(s) == Len(s) >= 1 /\ \A i \in 1 .. Len(s) : \E k \in 1 .. 10 : DigitChars[k] = s[i]

\* whether int(s) succeeds: an optional sign and at least one digit
IsInt(s) == IF Len(s) >= 1 /\ s[1] \in {"-", "+"}
            THEN IsDigits(SubSeq(s, 2, Len(s)))
            ELSE IsDigits(s)

RECURSIVE DigitsValue(_)
DigitsValue(s) == IF Len(s) = 0 THEN 0
                  ELSE 10 * DigitsValue(SubSeq(s, 1, Len(s) - 1)) + DigitValue(s[Len(s)])

ParseInt(s) == IF s[1] = "-" THEN -DigitsValue(SubSeq(s, 2, Len(s)))
               ELSE IF s[1] = "+" THEN DigitsValue(SubSeq(s, 2, Len(s)))
               ELSE DigitsValue(s)

\* mutant of to_block_index: the two parts are returned in the other order
to_block_index_swapped(block_id) ==
    LET seps == { i \in 1 .. Len(block_id) : block_id[i] = "#" }
    IN  IF Cardinality(seps) # 1 THEN [ok |-> FALSE, ix |-> 0, iy |-> 0]
        ELSE LET i == CHOOSE j \in seps : TRUE
                 l == SubSeq(block_id, 1, i - 1)
                 r == SubSeq(block_id, i + 1, Len(block_id))
             IN  IF IsInt(l) /\ IsInt(r)
                 THEN [ok |-> TRUE, ix |-> ParseInt(r), iy |-> ParseInt(l)]
                 ELSE [ok |-> FALSE, ix |-> 0, iy |-> 0]

\* block_id.split("#") unpacked into two names, each given to int();
\* anything else raises ValueError
to_block_index(block_id) ==
    LET seps == { i \in 1 .. Len(block_id) : block_id[i] = "#" }
    IN  IF Cardinality(seps) # 1 THEN [ok |-> FALSE, ix |-> 0, iy |-> 0]
        ELSE LET i == CHOOSE j \in seps : TRUE
                 l == SubSeq(block_id, 1, i - 1)
                 r == SubSeq(block_id, i + 1, Len(block_id))
             IN  IF IsInt(l) /\ IsInt(r)
                 THEN [ok |-> TRUE, ix |-> ParseInt(l), iy |-> ParseInt(r)]
                 ELSE [ok |-> FALSE, ix |-> 0, iy |-> 0]

\* the identifiers a client sends: a padded one, an unpadded one, a malformed one
BlockIds == { to_block_id(0, 1), <<"1", "#", "0">>, <<"1", "#">> }

\* mutant of create_block_model: the view is built from the index alone
create_block_model_without_metadata(b) ==
    [ix |-> b.ix, iy |-> b.iy,
     create_time |-> b.create_time,
     metadata |-> None,
     lon |-> <<index_to_coord(b.ix), index_to_coord(b.ix + 1)>>,
     lat |-> <<index_to_coord(b.iy), index_to_coord(b.iy + 1)>>,
     block_id |-> to_block_id(b.ix, b.iy)]

\* _create_block_model: the enriched view of a stored or default block
\* (the two display names are left out: no state depends on them)
create_block_model(b) ==
    [ix |-> b.ix, iy |-> b.iy,
     create_time |-> b.create_time,
     metadata |-> b.metadata,
     lon |-> <<index_to_coord(b.ix), index_to_coord(b.ix + 1)>>,
     lat |-> <<index_to_coord(b.iy), index_to_coord(b.iy + 1)>>,
     block_id |-> to_block_id(b.ix, b.iy)]

(***************************************************************************)
(* src/db/block_repository.py: the collection is the sequence db of the    *)
(* documents in insertion order                                            *)
(***************************************************************************)
Matching(d, ix, iy) == { i \in 1 .. Len(d) : d[i].ix = ix /\ d[i].iy = iy }

Min(S) == CHOOSE m \in S : \A n \in S : m <= n

\* collection.find_one({"ix": ix, "iy": iy}) and the conversion to BlockInDB
repo_get_block(d, ix, iy) ==
    IF Matching(d, ix, iy) = {} THEN None ELSE d[Min(Matching(d, ix, iy))]

\* mutant of create_index: the index is created without unique=True
create_index_not_unique(d, u) == [ok |-> TRUE, unique_index |-> u]

\* collection.create_index([("ix", 1), ("iy", 1)], unique=True): the index
\* exists afterwards, unless it has to be built and the collection already
\* holds two documents with one key, which raises DuplicateKeyError
create_index(d, u) ==
    LET ok == u \/ \A i, j \in 1 .. Len(d) :
                       (d[i].ix = d[j].ix /\ d[i].iy = d[j].iy) => i = j
    IN  [ok |-> ok, unique_index |-> ok]

\* mutant of insert_one: a duplicate key is accepted silently
insert_one_unchecked(d, u, doc) == [ok |-> TRUE, db |-> Append(d, doc)]

\* collection.insert_one(block_dict): DuplicateKeyError when the unique
\* index exists and holds the key
insert_one(d, u, doc) ==
    IF u /\ Matching(d, doc.ix, doc.iy) # {}
    THEN [ok |-> FALSE, db |-> d]
    ELSE [ok |-> TRUE, db |-> Append(d, doc)]

\* mutant of update_block_metadata: only the fields that are set are written
update_block_metadata_merging(d, t, ix, iy, metadata) ==
    IF Matching(d, ix, iy) = {} THEN d
    ELSE LET i == Min(Matching(d, ix, iy))
             old == d[i].metadata
         IN  [d EXCEPT ![i].metadata =
                [f \in {"author", "author_ip", "color"} |->
                    IF metadata[f] = "None" THEN old[f] ELSE metadata[f]]]

\* mutant of update_block_metadata: the document is replaced by a new BlockInDB
update_block_metadata_replacing(d, t, ix, iy, metadata) ==
    IF Matching(d, ix, iy) = {} THEN d
    ELSE [d EXCEPT ![Min(Matching(d, ix, iy))] = BlockInDB(ix, iy, metadata, t)]

\* collection.update_one({"ix": ix, "iy": iy}, {"$set": {"metadata": ...}})
\* at time t: the first matching document gets the whole new metadata
update_block_metadata(d, t, ix, iy, metadata) ==
    IF Matching(d, ix, iy) = {} THEN d
    ELSE [d EXCEPT ![Min(Matching(d, ix, iy))].metadata = metadata]

\* collection.find({ix: {$gte, $lte}, iy: {$gte, $lte}}): the documents of
\* the rectangle, in an order the storage chooses
InArea(d, min_ix, min_iy, max_ix, max_iy) ==
    { i \in 1 .. Len(d) : /\ min_ix <= d[i].ix /\ d[i].ix <= max_ix
                          /\ min_iy <= d[i].iy /\ d[i].iy <= max_iy }

get_blocks_in_area(d, min_ix, min_iy, max_ix, max_iy) ==
    LET S == InArea(d, min_ix, min_iy, max_ix, max_iy)
        n == Cardinality(S)
    IN  { [k \in 1 .. n |-> d[f[k]]] :
            f \in { g \in [1 .. n -> S] : \A a, b \in 1 .. n : g[a] = g[b] => a = b } }

(***************************************************************************)
(* src/place/block.py: the operations on blocks.  Each takes the           *)
(* collection d and the time t of the call.                                *)
(***************************************************************************)
\* mutant of get_block: the default block is saved
get_block_saving_default(d, t, block_id) ==
    LET idx == to_block_index(block_id)
        found == repo_get_block(d, idx.ix, idx.iy)
        block == IF found = None THEN BlockInDB(idx.ix, idx.iy, None, t) ELSE found
    IN  [db |-> IF found = None THEN Append(d, block) ELSE d,
         ret |-> create_block_model(block)]

\* get_block: the stored block or a default one, enriched; the collection
\* after the call is the collection before it
get_block(d, t, block_id) ==
    LET idx == to_block_index(block_id)
        found == repo_get_block(d, idx.ix, idx.iy)
        block == IF found = None THEN BlockInDB(idx.ix, idx.iy, None, t) ELSE found
    IN  [db |-> d, ret |-> create_block_model(block)]

\* blocks_dict = {(block.ix, block.iy): block for block in blocks_in_db},
\* then blocks_dict.get((ix, iy)): the last block of the scan with that key
blocks_dict_get(scan, ix, iy) ==
    LET S == { k \in 1 .. Len(scan) : scan[k].ix = ix /\ scan[k].iy = iy }
    IN  IF S = {} THEN None ELSE scan[CHOOSE k \in S : \A j \in S : j <= k]

range_cell(scan, t, ix, iy) ==
    LET found == blocks_dict_get(scan, ix, iy)
    IN  create_block_model(IF found = None THEN BlockInDB(ix, iy, None, t) ELSE found)

RECURSIVE inner_loop(_, _, _, _, _)
\* for iy in range(min_iy, max_iy + 1)
inner_loop(scan, t, ix, iy, max_iy) ==
    IF iy > max_iy THEN <<>>
    ELSE <<range_cell(scan, t, ix, iy)>> \o inner_loop(scan, t, ix, iy + 1, max_iy)

RECURSIVE outer_loop(_, _, _, _, _, _)
\* for ix in range(min_ix, max_ix + 1)
outer_loop(scan, t, ix, min_iy, max_ix, max_iy) ==
    IF ix > max_ix THEN <<>>
    ELSE inner_loop(scan, t, ix, min_iy, max_iy)
         \o outer_loop(scan, t, ix + 1, min_iy, max_ix, max_iy)

\* mutant of get_blocks_in_range: the blocks of the scan, as the scan gave them
get_blocks_in_range_of_scan(scan, t, min_ix, min_iy, max_ix, max_iy) ==
    [k \in 1 .. Len(scan) |-> create_block_model(scan[k])]

\* get_blocks_in_range, given what the scan of the rectangle returned
get_blocks_in_range(scan, t, min_ix, min_iy, max_ix, max_iy) ==
    outer_loop(scan, t, min_ix, min_iy, max_ix, max_iy)

(***************************************************************************)
(* src/api/block.py: the range request                                     *)
(***************************************************************************)
\* (x2 - x1 + 1) * (y2 - y1 + 1) >= __BLOCKS_IN_RANGE_MAXIMUM__, on the
\* coordinates as given, both sides multiplied by Den * Den
too_many_blocks(max, x1, y1, x2, y2) ==
    (x2 - x1 + Den) * (y2 - y1 + Den) >= max * Den * Den

\* sorted([a, b])
sorted(a, b) == IF a <= b THEN <<a, b>> ELSE <<b, a>>

\* the index rectangle the handler asks the place layer for
index_rect(x1, y1, x2, y2) ==
    [min_ix |-> coord_to_index(sorted(x1, x2)[1]),
     max_ix |-> coord_to_index(sorted(x1, x2)[2]),
     min_iy |-> coord_to_index(sorted(y1, y2)[1]),
     max_iy |-> coord_to_index(sorted(y1, y2)[2])]

RangeReq(x1, y1, x2, y2) == [x1 |-> x1, y1 |-> y1, x2 |-> x2, y2 |-> y2]

Response(kind, r, status, blocks, ops) ==
    [kind |-> kind, req |-> r, status |-> status, blocks |-> blocks, ops |-> ops]

NoResponse == [kind |-> "none"]

\* mutant of api_get_blocks_in_range: the size is checked after the scan
api_get_blocks_in_range_scan_first(d, t, max, x1, y1, x2, y2) ==
    LET r == index_rect(x1, y1, x2, y2)
    IN  { [db |-> d,
           resp |-> IF too_many_blocks(max, x1, y1, x2, y2)
                    THEN Response("range", RangeReq(x1, y1, x2, y2),
                                  "RangeTooLarge", <<>>, 1)
                    ELSE Response("range", RangeReq(x1, y1, x2, y2), "ok",
                                  get_blocks_in_range(scan, t, r.min_ix, r.min_iy,
                                                      r.max_ix, r.max_iy), 1)] :
          scan \in get_blocks_in_area(d, r.min_ix, r.min_iy, r.max_ix, r.max_iy) }

\* the outcomes of a range request on collection d at time t: HTTP 413
\* before anything else, or the blocks built from one scan; ops counts the
\* storage operations the request performed, db is the collection after it
api_get_blocks_in_range(d, t, max, x1, y1, x2, y2) ==
    IF too_many_blocks(max, x1, y1, x2, y2)
    THEN { [db |-> d,
            resp |-> Response("range", RangeReq(x1, y1, x2, y2),
                              "RangeTooLarge", <<>>, 0)] }
    ELSE LET r == index_rect(x1, y1, x2, y2)
         IN  { [db |-> d,
                resp |-> Response("range", RangeReq(x1, y1, x2, y2), "ok",
                                  get_blocks_in_range(scan, t, r.min_ix, r.min_iy,
                                                      r.max_ix, r.max_iy), 1)] :
               scan \in get_blocks_in_area(d, r.min_ix, r.min_iy, r.max_ix, r.max_iy) }

\* the outcome of a get request: ValueError on a malformed identifier
api_get_a_block(d, t, block_id) ==
    IF ~to_block_index(block_id).ok
    THEN [db |-> d, resp |-> Response("get", block_id, "ValueError", <<>>, 0)]
    ELSE [db |-> get_block(d, t, block_id).db,
          resp |-> Response("get", block_id, "ok",
                            <<get_block(d, t, block_id).ret>>, 1)]

(***************************************************************************)
(* The state machine.  A get or a range request awaits one storage         *)
(* operation and is one step; a place request awaits several and is one    *)
(* step per storage operation, so that place requests interleave.          *)
(***************************************************************************)
Init ==
    /\ codec = None
    /\ maximum \in Maximums
    /\ now = 0
    /\ db = <<>>
    /\ unique_index = FALSE
    /\ pc = [p \in Procs |-> "idle"]
    /\ req = [p \in Procs |-> None]
    /\ block_indb = [p \in Procs |-> None]
    /\ path = [p \in Procs |-> "none"]
    /\ interfered = [p \in Procs |-> FALSE]
    /\ result = [p \in Procs |-> None]
    /\ response = NoResponse

\* no response is waiting to be delivered: every step but Deliver waits for
\* this, so that response is always the response of the last step
Quiet == response = NoResponse

\* datetime.now advances
Tick ==
    /\ Quiet
    /\ now < MaxTime
    /\ now' = now + 1
    /\ UNCHANGED <<codec, maximum, db, unique_index, pc, req, block_indb, path, interfered,
                   result, response>>

GetABlock ==
    /\ Quiet
    /\ \E block_id \in BlockIds :
        LET r == api_get_a_block(db, now, block_id)
        IN  /\ db' = r.db
            /\ response' = r.resp
    /\ UNCHANGED <<codec, maximum, now, unique_index, pc, req, block_indb, path,
                   interfered, result>>

GetBlocksInRange ==
    /\ Quiet
    /\ \E x1, x2 \in XCoords, y1, y2 \in YCoords :
        \E r \in api_get_blocks_in_range(db, now, maximum, x1, y1, x2, y2) :
            /\ db' = r.db
            /\ response' = r.resp
    /\ UNCHANGED <<codec, maximum, now, unique_index, pc, req, block_indb, path,
                   interfered, result>>

Idx(p) == to_block_index(req[p].block_id)

\* the other place requests in flight on the cell that p writes
Others(p) ==
    { q \in Procs \ {p} : /\ pc[q] \notin {"idle", "failed"}
                          /\ Idx(q).ix = Idx(p).ix /\ Idx(q).iy = Idx(p).iy }

\* place_a_block is called: to_block_index may raise ValueError
PlaceCall(p) ==
    /\ Quiet
    /\ pc[p] = "idle"
    /\ \E block_id \in BlockIds, metadata \in Metas :
        /\ req' = [req EXCEPT ![p] = [block_id |-> block_id, metadata |-> metadata]]
        /\ IF to_block_index(block_id).ok
           THEN /\ pc' = [pc EXCEPT ![p] = "find"]
                /\ result' = result
           ELSE /\ pc' = [pc EXCEPT ![p] = "failed"]
                /\ result' = [result EXCEPT ![p] = [status |-> "ValueError"]]
    /\ interfered' = [interfered EXCEPT ![p] = FALSE]
    /\ UNCHANGED <<codec, maximum, now, db, unique_index, block_indb, path, response>>

\* block_indb = await BlockRepository().get_block(ix, iy), and the branch
PlaceFind(p) ==
    /\ Quiet
    /\ pc[p] = "find"
    /\ LET found == repo_get_block(db, Idx(p).ix, Idx(p).iy)
       IN  IF found = None
           THEN /\ block_indb' = [block_indb EXCEPT ![p] =
                                    BlockInDB(Idx(p).ix, Idx(p).iy, req[p].metadata, now)]
                /\ path' = [path EXCEPT ![p] = "create"]
                /\ pc' = [pc EXCEPT ![p] = "create_index"]
           ELSE /\ block_indb' = [block_indb EXCEPT ![p] = found]
                /\ path' = [path EXCEPT ![p] = "update"]
                /\ pc' = [pc EXCEPT ![p] = "update"]
    /\ UNCHANGED <<codec, maximum, now, db, unique_index, req, interfered, result, response>>

\* create_block: await collection.create_index(...)
PlaceCreateIndex(p) ==
    /\ Quiet
    /\ pc[p] = "create_index"
    /\ unique_index' = create_index(db, unique_index).unique_index
    /\ IF create_index(db, unique_index).ok
       THEN /\ pc' = [pc EXCEPT ![p] = "insert"]
            /\ result' = result
       ELSE /\ pc' = [pc EXCEPT ![p] = "failed"]
            /\ result' = [result EXCEPT ![p] = [status |-> "DuplicateKey"]]
    /\ UNCHANGED <<codec, maximum, now, db, req, block_indb, path, interfered, response>>

\* create_block: await collection.insert_one(block_dict)
PlaceInsert(p) ==
    /\ Quiet
    /\ pc[p] = "insert"
    /\ LET r == insert_one(db, unique_index, block_indb[p])
       IN  /\ db' = r.db
           /\ IF r.ok
              THEN /\ pc' = [pc EXCEPT ![p] = "get"]
                   /\ result' = result
                   /\ interfered' = [q \in Procs |-> interfered[q] \/ q \in Others(p)]
              ELSE /\ pc' = [pc EXCEPT ![p] = "failed"]
                   /\ result' = [result EXCEPT ![p] = [status |-> "DuplicateKey"]]
                   /\ interfered' = interfered
    /\ UNCHANGED <<codec, maximum, now, unique_index, req, block_indb, path, response>>

\* await BlockRepository().update_block_metadata(ix, iy, metadata)
PlaceUpdate(p) ==
    /\ Quiet
    /\ pc[p] = "update"
    /\ db' = update_block_metadata(db, now, Idx(p).ix, Idx(p).iy, req[p].metadata)
    /\ pc' = [pc EXCEPT ![p] = "get"]
    /\ interfered' = [q \in Procs |-> interfered[q] \/ q \in Others(p)]
    /\ UNCHANGED <<codec, maximum, now, unique_index, req, block_indb, path, result, response>>

\* return await get_block(block_id)
PlaceGet(p) ==
    /\ Quiet
    /\ pc[p] = "get"
    /\ LET r == get_block(db, now, req[p].block_id)
       IN  /\ db' = r.db
           /\ result' = [result EXCEPT ![p] = [status |-> "ok", block |-> r.ret]]
    /\ pc' = [pc EXCEPT ![p] = "done"]
    /\ UNCHANGED <<codec, maximum, now, unique_index, req, block_indb, path, interfered, response>>

\* the response of a place request is delivered
Return(p) ==
    /\ Quiet
    /\ pc[p] \in {"done", "failed"}
    /\ pc' = [pc EXCEPT ![p] = "idle"]
    /\ req' = [req EXCEPT ![p] = None]
    /\ block_indb' = [block_indb EXCEPT ![p] = None]
    /\ path' = [path EXCEPT ![p] = "none"]
    /\ interfered' = [interfered EXCEPT ![p] = FALSE]
    /\ result' = [result EXCEPT ![p] = None]
    /\ UNCHANGED <<codec, maximum, now, db, unique_index, response>>

Place(p) ==
    \/ PlaceCall(p)
    \/ PlaceFind(p)
    \/ PlaceCreateIndex(p)
    \/ PlaceInsert(p)
    \/ PlaceUpdate(p)
    \/ PlaceGet(p)
    \/ Return(p)

\* place requests of all clients, interleaved
Next ==
    \/ Tick
    \/ \E p \in Procs : Place(p)

\* place requests never read maximum: one value of it is enough
InitPlace == Init /\ \A m \in Maximums : m <= maximum

Spec == InitPlace /\ [][Next]_vars

\* the response of a get or range request is delivered
Deliver ==
    /\ response # NoResponse
    /\ response' = NoResponse
    /\ UNCHANGED <<codec, maximum, now, db, unique_index, pc, req, block_indb, path,
                   interfered, result>>

\* one client placing blocks, and get and range requests at any moment;
\* response holds what a request returned until the next step delivers it
NextRead ==
    \/ Deliver
    \/ Tick
    \/ Place("p1")
    \/ GetABlock
    \/ GetBlocksInRange

SpecRead == Init /\ [][NextRead]_vars

(***************************************************************************)
(* The codec on its own: a call draws its arguments, to_block_id encodes   *)
(* them and to_block_index decodes the identifier, or index_to_coord turns *)
(* an index into a coordinate and coord_to_index turns it back.  The       *)
(* service is idle.                                                        *)
(***************************************************************************)
\* the index pairs given to to_block_id: every index of 0 .. SCALE on either
\* side, next to each end of the range, and two pairs outside the range
IndexPairs ==
    ((0 .. SCALE) \X {0, SCALE}) \cup ({0, SCALE} \X (0 .. SCALE))
        \cup {<<-1, 1>>, <<1, SCALE + 1>>}

BlockIdCalls == { [at |-> "called", ix |-> p[1], iy |-> p[2]] : p \in IndexPairs }

\* the magnitudes of the large indexes given to index_to_coord: the index of
\* 180 degrees, 2^52 - 1, 2^52 + 29 and 2^53 + 1
LargeMagnitudes ==
    { NatBits(180 * SCALE),
      [j \in 1 .. 52 |-> 1],
      AddBits(Pow2(52), NatBits(29)),
      AddBits(Pow2(53), NatBits(1)) }

\* the indexes given to index_to_coord
CoordIndexes ==
    { PyInt(n) : n \in -MaxCoordIndex .. MaxCoordIndex }
        \cup { [neg |-> neg, mag |-> mag] : neg \in BOOLEAN, mag \in LargeMagnitudes }

CoordCalls == { [at |-> "index", i |-> i] : i \in CoordIndexes }

InitCodec ==
    /\ codec \in BlockIdCalls \cup CoordCalls
    /\ maximum \in Maximums /\ \A m \in Maximums : m <= maximum
    /\ now = 0
    /\ db = <<>>
    /\ unique_index = FALSE
    /\ pc = [p \in Procs |-> "idle"]
    /\ req = [p \in Procs |-> None]
    /\ block_indb = [p \in Procs |-> None]
    /\ path = [p \in Procs |-> "none"]
    /\ interfered = [p \in Procs |-> FALSE]
    /\ result = [p \in Procs |-> None]
    /\ response = NoResponse

\* block_id = to_block_id(ix, iy)
ToBlockId ==
    /\ codec.at = "called"
    /\ codec' = [at |-> "encoded", ix |-> codec.ix, iy |-> codec.iy,
                 block_id |-> to_block_id(codec.ix, codec.iy)]
    /\ UNCHANGED <<maximum, now, db, unique_index, pc, req, block_indb, path,
                   interfered, result, response>>

\* to_block_index(block_id)
ToBlockIndex ==
    /\ codec.at = "encoded"
    /\ codec' = [at |-> "decoded", ix |-> codec.ix, iy |-> codec.iy,
                 block_id |-> codec.block_id,
                 index |-> to_block_index(codec.block_id)]
    /\ UNCHANGED <<maximum, now, db, unique_index, pc, req, block_indb, path,
                   interfered, result, response>>

\* coord = index_to_coord(i)
IndexToCoord ==
    /\ codec.at = "index"
    /\ codec' = [at |-> "coord", i |-> codec.i, coord |-> index_to_coord_float(codec.i)]
    /\ UNCHANGED <<maximum, now, db, unique_index, pc, req, block_indb, path,
                   interfered, result, response>>

\* coord_to_index(coord)
CoordToIndex ==
    /\ codec.at = "coord"
    /\ codec' = [at |-> "back", i |-> codec.i, coord |-> codec.coord,
                 index |-> coord_to_index_float(codec.coord)]
    /\ UNCHANGED <<maximum, now, db, unique_index, pc, req, block_indb, path,
                   interfered, result, response>>

NextCodec ==
    \/ ToBlockId
    \/ ToBlockIndex
    \/ IndexToCoord
    \/ CoordToIndex

SpecCodec == InitCodec /\ [][NextCodec]_vars

(***************************************************************************)
(* The properties.  In SpecRead, a state with a response is the state the  *)
(* request left: nothing else has happened since.                          *)
(***************************************************************************)
RangeOk == response.kind = "range" /\ response.status = "ok"

Rejected == response.kind = "range" /\ response.status = "RangeTooLarge"

\* the index rectangle of the range request that response answers
Rect == index_rect(response.req.x1, response.req.y1, response.req.x2, response.req.y2)

Cells(blocks) == [k \in 1 .. Len(blocks) |-> <<blocks[k].ix, blocks[k].iy>>]

Persisted(ix, iy) == Matching(db, ix, iy) # {}

\* C1: a successful range request returns exactly one block per index pair of
\* the inclusive rectangle, ix-major ascending: with h rows, the k-th block is
\* (min_ix + (k-1) div h, min_iy + (k-1) mod h); for (0,0,1,1) the blocks are
\* (0,0), (0,1), (1,0), (1,1)
C1_RangeCoversRectangleInOrder ==
    RangeOk =>
        LET w == Rect.max_ix - Rect.min_ix + 1
            h == Rect.max_iy - Rect.min_iy + 1
            b == response.blocks
        IN  /\ Rect.min_ix <= Rect.max_ix /\ Rect.min_iy <= Rect.max_iy
            /\ Len(b) = w * h
            /\ \A k \in 1 .. Len(b) :
                /\ b[k].ix = Rect.min_ix + ((k - 1) \div h)
                /\ b[k].iy = Rect.min_iy + ((k - 1) % h)
            /\ (Rect = [min_ix |-> 0, max_ix |-> 1, min_iy |-> 0, max_iy |-> 1]
                    => Cells(b) = << <<0, 0>>, <<0, 1>>, <<1, 0>>, <<1, 1>> >>)

\* a range request over (0,0,1,1) answered from a scan of two stored blocks
C1_Witness ==
    /\ RangeOk
    /\ Cells(response.blocks) = << <<0, 0>>, <<0, 1>>, <<1, 0>>, <<1, 1>> >>
    /\ Len(db) = 2
    /\ response.blocks[2].metadata # None
    /\ response.blocks[3].metadata # None
    /\ response.blocks[1].metadata = None

CellCount(r) == (r.max_ix - r.min_ix + 1) * (r.max_iy - r.min_iy + 1)

\* C2: a range request is rejected as RangeTooLarge exactly when the number of
\* cells of its index rectangle is at least the maximum, so a successful
\* response holds fewer blocks than the maximum
C2_RejectedIffCellCountAtLeastMaximum ==
    response.kind = "range" =>
        /\ (response.status = "RangeTooLarge") <=> (CellCount(Rect) >= maximum)
        /\ response.status = "ok" => Len(response.blocks) < maximum

\* C3: storage holds at most one document per (ix, iy)
C3_OneCellPerIndex ==
    \A i, j \in 1 .. Len(db) :
        (db[i].ix = db[j].ix /\ db[i].iy = db[j].iy) => i = j

SameCell(p, q) == Idx(p).ix = Idx(q).ix /\ Idx(p).iy = Idx(q).iy

\* the place request of p took the create branch and its insert was answered
Inserted(p) == path[p] = "create" /\ pc[p] \in {"get", "done", "failed"}

\* two requests raced to create one cell; one lost, the cell is stored once
C3_Witness ==
    \E p, q \in Procs :
        /\ p # q /\ Inserted(p) /\ Inserted(q) /\ SameCell(p, q)
        /\ pc[p] = "failed"
        /\ Cardinality(Matching(db, Idx(p).ix, Idx(p).iy)) = 1

C4_RaceInvariant ==
    /\ \A p, q \in Procs :
        (p # q /\ Inserted(p) /\ Inserted(q) /\ SameCell(p, q))
            => (pc[p] = "failed") # (pc[q] = "failed")
    /\ \A p \in Procs :
        /\ (path[p] = "create" /\ pc[p] = "failed")
                => result[p] = [status |-> "DuplicateKey"]
        /\ path[p] = "update" => pc[p] # "failed"
        /\ (path[p] = "update" /\ pc[p] = "done") => result[p].status = "ok"

C4_LoserWritesNothing ==
    \A p \in Procs :
        /\ (pc[p] = "insert" /\ pc'[p] = "failed")
                => (db' = db /\ Persisted(Idx(p).ix, Idx(p).iy))
        /\ (pc[p] = "find" /\ pc'[p] # "find")
                => (pc'[p] = "update" <=> Persisted(Idx(p).ix, Idx(p).iy))

\* C4: of two place requests that both found one cell absent, exactly one
\* creates it and the other fails with DuplicateKey, returns no block and
\* writes nothing; a request that looks the cell up after the create takes
\* the update branch and succeeds
C4_CreateRace == []C4_RaceInvariant /\ [][C4_LoserWritesNothing]_vars

\* both requests found the cell absent with different metadata; the loser
\* failed and the stored metadata is the winner's
C4_Witness ==
    \E p, q \in Procs :
        /\ p # q /\ Inserted(p) /\ Inserted(q) /\ SameCell(p, q)
        /\ pc[p] = "failed" /\ pc[q] = "done"
        /\ req[p].metadata # req[q].metadata
        /\ result[p] = [status |-> "DuplicateKey"]
        /\ result[q].block.metadata = req[q].metadata

\* C5: a place request that found the cell stored and met no concurrent
\* writer leaves the stored metadata, and returns a block whose metadata is,
\* exactly the metadata of the request, field by field
C5_UpdateReplacesMetadata ==
    \A p \in Procs :
        (pc[p] = "done" /\ path[p] = "update" /\ ~interfered[p]) =>
            /\ result[p].block.metadata = req[p].metadata
            /\ repo_get_block(db, Idx(p).ix, Idx(p).iy).metadata = req[p].metadata
            /\ \A f \in {"author", "author_ip", "color"} :
                 result[p].block.metadata[f] = req[p].metadata[f]

\* the cell was stored with author and author_ip set; the request sets only
\* the color
C5_Witness ==
    \E p \in Procs :
        /\ pc[p] = "done" /\ path[p] = "update" /\ ~interfered[p]
        /\ block_indb[p].metadata = BlockMetadata("a", "ip", "None")
        /\ req[p].metadata = BlockMetadata("None", "None", "c")
        /\ result[p].block.metadata = BlockMetadata("None", "None", "c")

\* C6: no step removes a stored document or changes its ix, iy or
\* create_time; a step changes at most the metadata of stored documents
C6_CreateTimeNeverChanges ==
    [][ /\ Len(db') >= Len(db)
        /\ \A i \in 1 .. Len(db) :
            /\ db'[i].ix = db[i].ix
            /\ db'[i].iy = db[i].iy
            /\ db'[i].create_time = db[i].create_time ]_vars

\* a block created at time 0 was updated by a request that found it at time 1
C6_Witness ==
    \E p \in Procs :
        /\ pc[p] = "done" /\ path[p] = "update"
        /\ now = 1
        /\ result[p].block.create_time = 0
        /\ block_indb[p].metadata # req[p].metadata
        /\ result[p].block.metadata = req[p].metadata

\* the same two corners, given in the four possible orders
CornerOrders(r) ==
    { RangeReq(r.x1, r.y1, r.x2, r.y2), RangeReq(r.x2, r.y1, r.x1, r.y2),
      RangeReq(r.x1, r.y2, r.x2, r.y1), RangeReq(r.x2, r.y2, r.x1, r.y1) }

\* C7: whatever a range request returned, the request with its corners given
\* in another order returns the same on the same storage: both are rejected,
\* or both succeed with the same sequence of cells
C7_CornerOrderIrrelevant ==
    response.kind = "range" =>
        \A r \in CornerOrders(response.req) :
            \A o \in api_get_blocks_in_range(db, now, maximum, r.x1, r.y1, r.x2, r.y2) :
                /\ o.resp.status = response.status
                /\ Cells(o.resp.blocks) = Cells(response.blocks)

\* what a read of index (ix, iy) must return, given the storage it read
BlockMatchesStorage(b, ix, iy) ==
    /\ b.ix = ix /\ b.iy = iy
    /\ b.block_id = to_block_id(ix, iy)
    /\ (b.metadata = None) <=> ~Persisted(ix, iy)
    /\ Persisted(ix, iy) =>
        /\ b.metadata = repo_get_block(db, ix, iy).metadata
        /\ b.create_time = repo_get_block(db, ix, iy).create_time

\* C8: a block returned by get_block or get_blocks_in_range has metadata None
\* exactly when its index is not stored, carries the stored metadata and
\* create_time otherwise, and has the requested index and its block_id
C8_ReadReflectsStorage ==
    /\ (response.kind = "get" /\ response.status = "ok") =>
        BlockMatchesStorage(response.blocks[1],
                            to_block_index(response.req).ix,
                            to_block_index(response.req).iy)
    /\ RangeOk =>
        LET h == Rect.max_iy - Rect.min_iy + 1
        IN  \A k \in 1 .. Len(response.blocks) :
                BlockMatchesStorage(response.blocks[k],
                                    Rect.min_ix + ((k - 1) \div h),
                                    Rect.min_iy + ((k - 1) % h))
    /\ pc["p1"] = "done" =>
        BlockMatchesStorage(result["p1"].block, Idx("p1").ix, Idx("p1").iy)

\* a range response with a stored block and a default block
C8_Witness ==
    /\ RangeOk
    /\ \E k \in 1 .. Len(response.blocks) :
        /\ response.blocks[k].metadata = BlockMetadata("a", "ip", "None")
        /\ response.blocks[k].create_time < now
    /\ \E k \in 1 .. Len(response.blocks) : response.blocks[k].metadata = None

\* a step that answers a get or range request, or the get_block of a place
ReadStep ==
    \/ response = NoResponse /\ response' # NoResponse
    \/ \E p \in Procs : pc[p] = "get" /\ pc'[p] = "done"

\* C9: a read leaves the collection and its index as they were: the default
\* block of an index that is not stored is not written
C9_ReadsLeaveStorageUnchanged ==
    [][ReadStep => (db' = db /\ unique_index' = unique_index)]_vars

\* a get request returned the default block of an index that is still not
\* stored, while another index is
C9_Witness ==
    /\ response.kind = "get" /\ response.status = "ok"
    /\ response.blocks[1].metadata = None
    /\ ~Persisted(response.blocks[1].ix, response.blocks[1].iy)
    /\ Len(db) = 1

C10_RejectionStep ==
    (response = NoResponse /\ response'.kind = "range"
        /\ response'.status = "RangeTooLarge")
            => (db' = db /\ unique_index' = unique_index)

\* C10: a range request rejected as RangeTooLarge performed no storage
\* operation, returns no block and leaves storage as it was
C10_RejectionTouchesNoStorage ==
    /\ [](Rejected => (response.ops = 0 /\ response.blocks = <<>>))
    /\ [][C10_RejectionStep]_vars

\* a range request is rejected while blocks are stored
C10_Witness == Rejected /\ Len(db) = 2

\* the identifier is two decimals of the given width joined by "#", and the
\* decimals are ix and iy
PaddedPair(block_id, width, ix, iy) ==
    /\ Len(block_id) = 2 * width + 1
    /\ block_id[width + 1] = "#"
    /\ IsDigits(SubSeq(block_id, 1, width))
    /\ IsDigits(SubSeq(block_id, width + 2, 2 * width + 1))
    /\ DigitsValue(SubSeq(block_id, 1, width)) = ix
    /\ DigitsValue(SubSeq(block_id, width + 2, 2 * width + 1)) = iy

\* C11: for all integers ix, iy of 0 .. SCALE, to_block_id(ix, iy) is the two
\* indexes as zero-padded decimals of width len(str(SCALE)) = 5 joined by "#"
\* ((1, 1) gives 00001#00001), and to_block_index gives (ix, iy) back
C11_BlockIdRoundTrip ==
    (codec.at \in {"encoded", "decoded"} /\ codec.ix \in 0 .. SCALE /\ codec.iy \in 0 .. SCALE) =>
        /\ PaddedPair(codec.block_id, 5, codec.ix, codec.iy)
        /\ (codec.ix = 1 /\ codec.iy = 1) =>
               codec.block_id = <<"0", "0", "0", "0", "1", "#", "0", "0", "0", "0", "1">>
        /\ codec.at = "decoded" =>
               codec.index = [ok |-> TRUE, ix |-> codec.ix, iy |-> codec.iy]

\* an identifier with a five-digit index and a padded one has been decoded
C11_Witness ==
    /\ codec.at = "decoded"
    /\ codec.ix = SCALE /\ codec.iy = 123
    /\ codec.block_id = <<"1", "0", "0", "0", "0", "#", "0", "0", "1", "2", "3">>
    /\ codec.index = [ok |-> TRUE, ix |-> SCALE, iy |-> 123]

\* C12 as stated: for all integers i, coord_to_index(index_to_coord(i)) = i,
\* index_to_coord being float(i) * STEP and coord_to_index the truncation of
\* value * SCALE toward zero
C12_CoordRoundTripOfAnyInteger ==
    codec.at = "back" => codec.index = codec.i

\* C12, amended: for all integers i with |i| < 2^52,
\* coord_to_index(index_to_coord(i)) = i
C12_CoordRoundTripBelowTwoTo52 ==
    (codec.at = "back" /\ Len(codec.i.mag) <= 52) => codec.index = codec.i

\* a negative index whose coordinate is a rounded product has come back
C12_Witness ==
    /\ codec.at = "back"
    /\ codec.i = PyInt(-3)
    /\ Len(codec.coord.m) = MantissaBits /\ codec.coord.neg
    /\ codec.index = PyInt(-3)

====
